---- MODULE Spec2Model ----
(***************************************************************************)
(* Ingestion pipeline of the customer-support backend: the Kafka consumer  *)
(* worker (workers/message_processor.py), the identity and conversation    *)
(* statements of services/database.py and the web form handler             *)
(* (webhooks/webform.py), as a state machine over the database tables, the *)
(* topic partitions and each worker's position in its consumer loop.       *)
(* One action per awaited call of a handler: the workers and the web form  *)
(* handler interleave at those points, as asyncio tasks and OS processes   *)
(* sharing one PostgreSQL database do.                                     *)
(***************************************************************************)
EXTENDS Integers, Sequences, FiniteSets, TLC

VARIABLES
    settings,              \* Settings: retry attempts and backoff factor
    queue,                 \* fte.tickets.incoming, one partition per worker
    polled,                \* records each consumer has been handed by poll()
    committed,             \* offset each consumer has committed
    dlq,                   \* fte.dlq, in publication order
    wk,                    \* per worker: position in start() and its locals
    customers,             \* table customers
    customer_identifiers,  \* table customer_identifiers
    conversations,         \* table conversations
    messages,              \* table messages
    tickets,               \* table tickets
    nextId,                \* next value uuid4() hands out
    now,                   \* NOW(), in hours
    faults,                \* storage, broker, engine failures still to inject
    webforms,              \* web form submissions still to be made
    links,                 \* create_or_update_customer_identifier calls left
    ticks,                 \* hours the clock still jumps by, in order
    escalations,           \* fte.escalations, in publication order
    desk,                  \* service-layer and agent tool calls left
    door,                  \* HTTP front door: responses given, WhatsApp topic
    hist                   \* observations the properties are stated over

vars == <<settings, queue, polled, committed, dlq, wk, customers,
          customer_identifiers, conversations, messages, tickets, nextId,
          now, faults, webforms, links, ticks, escalations, desk, door, hist>>

(***************************************************************************)
(* Bounds of the model.                                                    *)
(***************************************************************************)
MaxQueue == 2          \* records initially in the partitions, in total
RetryAttempts == 2     \* MESSAGE_RETRY_MAX_ATTEMPTS outside the retry study
RetryFactor == 2       \* MESSAGE_RETRY_BACKOFF_FACTOR outside the retry study
MaxAttemptsCfg == 4    \* largest MESSAGE_RETRY_MAX_ATTEMPTS of the retry study
MaxFactorCfg == 3      \* largest MESSAGE_RETRY_BACKOFF_FACTOR of the retry study
MaxFaults == 1         \* injected failures per behaviour
MaxWebforms == 1       \* web form submissions per behaviour
MaxLinks == 2          \* identifier upserts per behaviour
MaxClock == 1          \* clock ticks per behaviour
MaxMerges == 2         \* merge_conversations calls per behaviour
MaxProbes == 2         \* texts classified per behaviour
MaxTools == 2          \* agent tool calls and resolutions per behaviour
MaxHooks == 2          \* WhatsApp webhook requests per behaviour
MaxStops == 1          \* shutdowns of a worker per behaviour

(***************************************************************************)
(* Program constants.                                                      *)
(***************************************************************************)
ReuseWindowHours == 24
TickHours == 25

Workers == {"w1", "w2"}
NULL == "NULL"
(* A nullable timestamp column holds <<>> (SQL NULL) or <<t>>.             *)

EmailA == "a@x.com"
PhoneP == "+15550001"

(* Records of the incoming topic.  json: json.loads accepts the bytes;     *)
(* schema: the InboundMessage constructor accepts the parsed object.       *)
Event(ch, mid, ident) ==
    [json |-> TRUE, schema |-> TRUE, channel |-> ch,
     channel_message_id |-> mid, customer_identifier |-> ident]

BadJson ==
    [json |-> FALSE, schema |-> FALSE, channel |-> NULL,
     channel_message_id |-> NULL, customer_identifier |-> NULL]

BadSchema ==
    [json |-> TRUE, schema |-> FALSE, channel |-> "email",
     channel_message_id |-> "m0", customer_identifier |-> NULL]

Events ==
    { Event("email", "m1", EmailA),
      Event("webform", "m2", EmailA),
      Event("whatsapp", "m3", PhoneP) }

Records == Events \cup {BadSchema, BadJson}

RECURSIVE SeqsOfLen(_, _)
SeqsOfLen(S, n) ==
    IF n = 0 THEN { <<>> }
    ELSE { Append(s, x) : s \in SeqsOfLen(S, n - 1), x \in S }

SeqsUpTo(S, n) == UNION { SeqsOfLen(S, k) : k \in 0..n }

RECURSIVE Pow(_, _)
Pow(b, e) == IF e = 0 THEN 1 ELSE b * Pow(b, e - 1)

(***************************************************************************)
(* Pure helpers of the worker.                                             *)
(***************************************************************************)
(* _process_message: identifier_type = 'email' if channel == 'email'       *)
(* else 'phone'.                                                           *)
identifier_type(channel) == IF channel = "email" THEN "email" ELSE "phone"

(* _get_or_create_customer: primary_email / primary_phone of the new row.  *)
primary_email(identifier, idtype) ==
    IF idtype = "email" THEN identifier ELSE NULL

primary_phone(identifier, idtype) ==
    IF idtype \in {"phone", "whatsapp"} THEN identifier ELSE NULL

(* A retry loop that gives up one attempt early.                           *)
FinalAttemptEarly(attempt, max_retries) == attempt >= max_retries - 2

(* _retry_with_exponential_backoff: "if attempt == max_retries - 1".       *)
FinalAttempt(attempt, max_retries) == attempt = max_retries - 1

(* A retry loop that sleeps the backoff factor itself on every turn.       *)
DelayFixed(backoff_factor, attempt) == backoff_factor

(* _retry_with_exponential_backoff: "delay = backoff_factor ** attempt".   *)
Delay(backoff_factor, attempt) == Pow(backoff_factor, attempt)

(* The except branch of _retry_with_exponential_backoff, applied to the    *)
(* locals r of a worker whose handler has just raised: re-raise on the     *)
(* final attempt, otherwise sleep for the delay and take the next turn of  *)
(* "for attempt in range(max_retries)"; a loop that runs out returns None. *)
Raised(r) ==
    IF FinalAttempt(r.attempt, settings.MESSAGE_RETRY_MAX_ATTEMPTS)
    THEN [r EXCEPT !.pc = "except", !.failures = @ + 1]
    ELSE [r EXCEPT
            !.failures = @ + 1,
            !.delays = Append(@, Delay(settings.MESSAGE_RETRY_BACKOFF_FACTOR,
                                       r.attempt)),
            !.attempt = @ + 1,
            !.pc = IF r.attempt + 1 < settings.MESSAGE_RETRY_MAX_ATTEMPTS
                   THEN "attempt" ELSE "commit"]

(* Bag insertion for the observation counters.                             *)
Bump(f, k) ==
    IF k \in DOMAIN f THEN [f EXCEPT ![k] = @ + 1] ELSE f @@ (k :> 1)

Count(f, k) == IF k \in DOMAIN f THEN f[k] ELSE 0

Key(rec) == <<rec.channel, rec.channel_message_id>>

(* A parameter with a default value: NULL stands for an argument (or form  *)
(* field) the caller left out.                                             *)
Default(arg, value) == IF arg = NULL THEN value ELSE arg

(* What one INSERT INTO tickets was asked for and the row it stored.       *)
Creation(row, category, priority, by) ==
    [row |-> row, category |-> category, priority |-> priority, by |-> by]

(***************************************************************************)
(* agent/prompts.py: the escalation keyword table and the detectors over   *)
(* it.  A text is a string; SubSeq takes its characters.                   *)
(***************************************************************************)
ESCALATION_KEYWORDS ==
    [pricing |-> <<"pricing", "how much", "cost", "price", "quote", "rate",
                   "fee", "charge", "payment plan">>,
     refund |-> <<"refund", "money back", "cancel subscription",
                  "charge back", "return payment", "reimbursement">>,
     legal |-> <<"lawyer", "legal", "sue", "attorney", "litigation",
                 "lawsuit", "legal action", "court">>,
     human_request |-> <<"talk to human", "speak to person", "human agent",
                         "real person", "representative", "talk to someone",
                         "human", "agent", "operator", "support team">>,
     profanity |-> <<"damn", "hell", "crap", "shit", "fuck", "ass", "bitch",
                     "bastard">>,
     aggressive |-> <<"stupid", "idiotic", "useless", "worthless",
                      "pathetic", "incompetent", "garbage", "trash">>]

UpperCase == "ABCDEFGHIJKLMNOPQRSTUVWXYZ"
LowerCase == "abcdefghijklmnopqrstuvwxyz"

(* str.lower() of one character.                                           *)
LowerChar(c) ==
    IF \E i \in 1..Len(UpperCase) : SubSeq(UpperCase, i, i) = c
    THEN LET i == CHOOSE i \in 1..Len(UpperCase) : SubSeq(UpperCase, i, i) = c
         IN SubSeq(LowerCase, i, i)
    ELSE c

(* text.lower()                                                            *)
RECURSIVE lower(_)
lower(text) ==
    IF Len(text) = 0 THEN ""
    ELSE LowerChar(SubSeq(text, 1, 1)) \o lower(SubSeq(text, 2, Len(text)))

(* "keyword in text_lower"                                                 *)
Contains(keyword, text_lower) ==
    \E i \in 1..(Len(text_lower) - Len(keyword) + 1) :
        SubSeq(text_lower, i, i + Len(keyword) - 1) = keyword

(* "for keyword in <list>: if keyword in text_lower: return True ..."      *)
AnyKeyword(keywords, text_lower) ==
    \E i \in 1..Len(keywords) : Contains(keywords[i], text_lower)

detect_profanity(text) ==
    LET text_lower == lower(text)
    IN \/ AnyKeyword(ESCALATION_KEYWORDS.profanity, text_lower)
       \/ AnyKeyword(ESCALATION_KEYWORDS.aggressive, text_lower)

detect_explicit_human_request(text) ==
    AnyKeyword(ESCALATION_KEYWORDS.human_request, lower(text))

Verdict(should_escalate, reason) ==
    [escalate |-> should_escalate, reason |-> reason]

(* A detector that looks for the legal keywords before the pricing ones.   *)
detect_legal_first(text) ==
    LET text_lower == lower(text)
    IN IF AnyKeyword(ESCALATION_KEYWORDS.legal, text_lower)
       THEN Verdict(TRUE, "legal_matter")
       ELSE IF AnyKeyword(ESCALATION_KEYWORDS.pricing, text_lower)
       THEN Verdict(TRUE, "pricing_inquiry")
       ELSE IF AnyKeyword(ESCALATION_KEYWORDS.refund, text_lower)
       THEN Verdict(TRUE, "refund_request")
       ELSE IF detect_profanity(text)
       THEN Verdict(TRUE, "profanity_aggressive_language")
       ELSE IF detect_explicit_human_request(text)
       THEN Verdict(TRUE, "explicit_human_request")
       ELSE Verdict(FALSE, NULL)

detect_escalation_trigger(text) ==
    LET text_lower == lower(text)
    IN IF AnyKeyword(ESCALATION_KEYWORDS.pricing, text_lower)
       THEN Verdict(TRUE, "pricing_inquiry")
       ELSE IF AnyKeyword(ESCALATION_KEYWORDS.refund, text_lower)
       THEN Verdict(TRUE, "refund_request")
       ELSE IF AnyKeyword(ESCALATION_KEYWORDS.legal, text_lower)
       THEN Verdict(TRUE, "legal_matter")
       ELSE IF detect_profanity(text)
       THEN Verdict(TRUE, "profanity_aggressive_language")
       ELSE IF detect_explicit_human_request(text)
       THEN Verdict(TRUE, "explicit_human_request")
       ELSE Verdict(FALSE, NULL)

(* inbound_msg.content of a record of the incoming topic: what the         *)
(* customer wrote in the message with that id.                             *)
content(rec) ==
    CASE rec.channel_message_id = "m1" -> "What is the PRICE?"
      [] rec.channel_message_id = "m3" -> "I want a Refund"
      [] OTHER -> "My login is broken"

(* Customer messages the detectors are applied to.                         *)
Texts ==
    { "What is the PRICE?", "I want a Refund", "My lawyer will call",
      "price or lawsuit", "Legal says refund me", "This is STUPID",
      "Talk to Human now", "Hello there", "My login is broken", "",
      "I need an operator, damn", "Accurate report", "PAYMENT PLAN",
      "Court date, real person" }

(***************************************************************************)
(* Queries of services/database.py.  A query with LIMIT 1 and no ORDER BY  *)
(* may return any matching row: each is given as the set of its possible   *)
(* results (customer ids).                                                 *)
(***************************************************************************)
find_customer_by_phone(phone) ==
    { row.id : row \in { c \in customers :
        \E ci \in customer_identifiers :
            /\ ci.customer_id = c.id
            /\ ci.identifier_type = "phone"
            /\ ci.identifier_value = phone } }

find_customer_by_any_identifier(email, phone, whatsapp) ==
    { row.id : row \in { c \in customers :
        \/ (email # NULL /\ c.primary_email = email)
        \/ \E ci \in customer_identifiers :
            /\ ci.customer_id = c.id
            /\ \/ (ci.identifier_type = "email" /\ email # NULL
                   /\ ci.identifier_value = email)
               \/ (ci.identifier_type = "phone" /\ phone # NULL
                   /\ ci.identifier_value = phone)
               \/ (ci.identifier_type = "whatsapp" /\ whatsapp # NULL
                   /\ ci.identifier_value = whatsapp) } }

(* The rows the worker's lookup_query of _get_or_create_customer matches.  *)
IdentifierRows(idtype, value) ==
    { ci \in customer_identifiers :
        ci.identifier_type = idtype /\ ci.identifier_value = value }

(* A lookup whose window takes in a conversation started exactly 24 hours  *)
(* ago.                                                                    *)
ActiveConversationsInclusive(customer_id) ==
    { c \in conversations :
        /\ c.customer_id = customer_id
        /\ c.status = "active"
        /\ c.started_at >= now - ReuseWindowHours }

(* The rows the lookup_query of _get_or_create_conversation matches.       *)
ActiveConversations(customer_id) ==
    { c \in conversations :
        /\ c.customer_id = customer_id
        /\ c.status = "active"
        /\ c.started_at > now - ReuseWindowHours }

(* ORDER BY started_at DESC LIMIT 1 over those rows.                       *)
LatestActive(customer_id) ==
    { c \in ActiveConversations(customer_id) :
        \A d \in ActiveConversations(customer_id) :
            d.started_at <= c.started_at }

(***************************************************************************)
(* Initial states.  The channel adapters have published some records; the  *)
(* keys they partition by differ between adapters ("email-<addr>" in       *)
(* webhooks/gmail.py, "<addr>" in webhooks/webform.py), so any record may  *)
(* sit in any partition, and the providers redeliver, so a record may      *)
(* occur more than once.  The tables are empty and no worker has polled.   *)
(***************************************************************************)
InitLocals ==
    [pc |-> "poll", bound |-> FALSE, message_data |-> BadJson,
     attempt |-> 0, delays |-> <<>>, customer_id |-> 0,
     conversation_id |-> 0, calls |-> 0, failures |-> 0, published |-> 0,
     known |-> 0, created |-> FALSE, dedup |-> "none", steps |-> <<>>,
     running |-> TRUE, closed |-> FALSE, stop_offset |-> 0]

InitHist ==
    [handoffs |-> <<>>, consumed |-> <<>>,
     resolved |-> [w \in Workers |-> [idtype |-> NULL, value |-> NULL,
                                      channel |-> NULL, id |-> 0,
                                      known |-> 0, created |-> FALSE]],
     last |-> [w \in Workers |-> [outcome |-> "none", calls |-> 0,
                                  failures |-> 0, delays |-> <<>>,
                                  published |-> 0, schema |-> TRUE,
                                  json |-> TRUE]],
     workerCreated |-> {}, resolvedByEmail |-> {}, phoneLinked |-> {},
     lastMessageAt |-> <<>>, merges |-> <<>>, moved |-> {},
     verdicts |-> {}, creations |-> {}, normalized |-> {},
     calls |-> <<>>,
     session |-> [w \in Workers |-> [customer |-> 0, at |-> 0, open |-> {},
                                     active |-> {},
                                     conversation |-> 0, created |-> FALSE,
                                     channel |-> NULL,
                                     initial_channel |-> NULL,
                                     switches |-> 0]]]

(* Partitions holding n records in all, the first consumer's at least as   *)
(* long as the second's (the two workers run the same code).               *)
Partitions(recs, n) ==
    { q \in [Workers -> SeqsUpTo(recs, n)] :
        Len(q["w1"]) + Len(q["w2"]) <= n /\ Len(q["w1"]) >= Len(q["w2"]) }

OnePartition(recs, n) ==
    { [w \in Workers |-> IF w = "w1" THEN s ELSE <<>>] :
        s \in SeqsUpTo(recs, n) }

Config(attempts, factor) ==
    [MESSAGE_RETRY_MAX_ATTEMPTS |-> attempts,
     MESSAGE_RETRY_BACKOFF_FACTOR |-> factor]

(* Calls the environment still makes past the worker: agent tool calls    *)
(* and resolutions of tickets, merges of conversations, texts classified,  *)
(* webhook requests, shutdowns of a worker.                                *)
Calls(tools, merges, probes, hooks, stops) ==
    [tools |-> tools, merges |-> merges, probes |-> probes, hooks |-> hooks,
     stops |-> stops]

Scenario(cfg, q, f, wf, l, t, d) ==
    [settings |-> cfg, queue |-> q, faults |-> f, webforms |-> wf,
     links |-> l, ticks |-> t, desk |-> d]

(* What the environment does in one behaviour: deliveries to two workers   *)
(* with nothing failing; one worker with storage, broker and reasoning     *)
(* engine failures; the web form front door and the clock; identifier      *)
(* upserts next to a worker.                                               *)
Deliveries ==
    { Scenario(Config(RetryAttempts, RetryFactor), q, 0, 0, 0, <<>>,
               Calls(0, 0, 0, 0, 0)) :
        q \in Partitions(Records, MaxQueue) }

Failures ==
    { Scenario(Config(RetryAttempts, RetryFactor), q, MaxFaults, 0, 0, <<>>,
               Calls(0, 0, 0, 0, 0)) :
        q \in OnePartition(Records, MaxQueue) }

FrontDoor ==
    { Scenario(Config(RetryAttempts, RetryFactor), q, 0, MaxWebforms, 0,
               t, Calls(0, 0, 0, 0, 0)) :
        q \in OnePartition(Events, 1)
                 \cup OnePartition({Event("email", "m1", EmailA)}, MaxQueue),
        t \in SeqsOfLen({TickHours, ReuseWindowHours - 1}, MaxClock) }

Linking ==
    { Scenario(Config(RetryAttempts, RetryFactor), q, 0, 0, MaxLinks, <<>>,
               Calls(0, 0, 0, 0, 0)) :
        q \in OnePartition(Events, MaxQueue) }

(* One worker under every retry configuration of the study.                *)
RetryStudy ==
    { Scenario(Config(a, f), q, MaxFaults, 0, 0, <<>>, Calls(0, 0, 0, 0, 0)) :
        a \in 1..MaxAttemptsCfg, f \in 1..MaxFactorCfg,
        q \in OnePartition(Records, 1) }

(* One customer writing by email again and again while the clock runs.     *)
Sessions ==
    { Scenario(Config(RetryAttempts, RetryFactor), q, 0, 0, 0, t,
               Calls(0, 0, 0, 0, 0)) :
        q \in OnePartition({Event("email", "m1", EmailA)}, MaxQueue + 1),
        t \in SeqsOfLen({ReuseWindowHours - 1, ReuseWindowHours,
                         ReuseWindowHours + 1}, MaxClock + 1) }

(* The conversation of a web form submission and the one a worker opens   *)
(* for the submission's event, merged.                                     *)
Merging ==
    { Scenario(Config(RetryAttempts, RetryFactor), q, MaxFaults, MaxWebforms,
               0, t, Calls(0, MaxMerges, 0, 0, 0)) :
        q \in OnePartition(Events, 0),
        t \in SeqsOfLen({ReuseWindowHours - 1}, MaxClock) }

(* Texts put to the escalation detector.                                   *)
Triage ==
    { Scenario(Config(RetryAttempts, RetryFactor), q, 0, 0, 0, <<>>,
               Calls(0, 0, MaxProbes, 0, 0)) :
        q \in OnePartition(Events, 0) }

(* A web form submission whose event a worker hands to the agent, which    *)
(* calls its tools while the worker waits; the support desk resolves       *)
(* tickets.                                                                *)
Desk ==
    { Scenario(Config(RetryAttempts, RetryFactor), q, MaxFaults, MaxWebforms,
               0, <<>>, Calls(MaxTools, 0, 0, 0, 0)) :
        q \in OnePartition(Events, 0) }

(* A web form ticket the agent and the support desk work on while the     *)
(* submission's two conversations are merged; nothing fails.               *)
Aftercare ==
    { Scenario(Config(RetryAttempts, RetryFactor), q, 0, MaxWebforms,
               0, <<>>, Calls(MaxTools, MaxMerges, 0, 0, 0)) :
        q \in OnePartition(Events, 0) }

(* One customer submitting the web form again an hour later, and the two   *)
(* conversations of the submissions merged an hour after that.             *)
Threads ==
    { Scenario(Config(RetryAttempts, RetryFactor), q, 0, MaxWebforms + 1,
               0, t, Calls(0, MaxMerges - 1, 0, 0, 0)) :
        q \in OnePartition(Events, 0),
        t \in SeqsOfLen({1}, MaxClock + 1) }

(* A worker that is shut down while it works through its partition.        *)
Shutdown ==
    { Scenario(Config(RetryAttempts, RetryFactor), q, 0, 0, 0, <<>>,
               Calls(0, 0, 0, 0, MaxStops)) :
        q \in OnePartition(Records, MaxQueue) }

(* Twilio posting to the WhatsApp webhook.                                 *)
Hooks ==
    { Scenario(Config(RetryAttempts, RetryFactor), q, 0, 0, 0, <<>>,
               Calls(0, 0, 0, MaxHooks, 0)) :
        q \in OnePartition(Events, 0) }

InitWith(scenarios) ==
    /\ \E s \in scenarios :
          /\ settings = s.settings
          /\ queue = s.queue
          /\ faults = s.faults
          /\ webforms = s.webforms
          /\ links = s.links
          /\ ticks = s.ticks
          /\ desk = s.desk
    /\ polled = [w \in Workers |-> 0]
    /\ committed = [w \in Workers |-> 0]
    /\ dlq = <<>>
    /\ escalations = <<>>
    /\ door = [responses |-> <<>>, whatsapp_inbound |-> <<>>]
    /\ wk = [w \in Workers |-> InitLocals]
    /\ customers = {}
    /\ customer_identifiers = {}
    /\ conversations = {}
    /\ messages = {}
    /\ tickets = {}
    /\ nextId = 1
    /\ now = 0
    /\ hist = InitHist

Init ==
    InitWith(Deliveries \cup Failures \cup FrontDoor \cup Linking
             \cup RetryStudy \cup Sessions \cup Merging
             \cup Triage \cup Desk \cup Aftercare \cup Hooks \cup Threads
             \cup Shutdown)

(***************************************************************************)
(* MessageProcessor.start: one turn of the consumer loop.                  *)
(***************************************************************************)
Current(w) == queue[w][polled[w]]

(* MessageProcessor.stop, which the finally clause of start awaits too:    *)
(* "self._running = False" and "self._consumer.close()".                   *)
Closed(r) == [r EXCEPT !.running = FALSE, !.closed = TRUE]

(* start is left through its finally clause.                               *)
Stopped(r) == [Closed(r) EXCEPT !.pc = "stopped"]

(* "while self._running": poll() hands over the next record and            *)
(* json.loads parses it; a record                                          *)
(* that does not parse raises into the except branch of start with         *)
(* message_data left as the previous turn of the loop set it.              *)
Poll(w) ==
    /\ wk[w].pc = "poll"
    /\ wk[w].running
    /\ polled[w] < Len(queue[w])
    /\ polled' = [polled EXCEPT ![w] = @ + 1]
    /\ LET rec == queue[w][polled[w] + 1] IN
       wk' = [wk EXCEPT ![w] =
                IF rec.json
                THEN [@ EXCEPT !.pc = "attempt", !.bound = TRUE,
                               !.message_data = rec, !.attempt = 0,
                               !.delays = <<>>, !.calls = 0, !.failures = 0,
                               !.published = 0, !.steps = <<>>]
                ELSE [@ EXCEPT !.pc = "except", !.attempt = 0,
                               !.delays = <<>>, !.calls = 0, !.failures = 0,
                               !.published = 0, !.steps = <<>>]]
    /\ UNCHANGED <<settings, queue, committed, dlq, customers,
                   customer_identifiers, conversations, messages, tickets,
                   nextId, now, faults, webforms, links, hist, ticks,
                   escalations, desk, door>>

(* A handler that goes from the parsed event straight to the customer.     *)
AfterValidationUnguarded(r) == [r EXCEPT !.pc = "cust_lookup"]

(* _process_message: the statement after "inbound_msg = InboundMessage(..)" *)
(* is the call of _check_message_deduplication.                            *)
AfterValidation(r) == [r EXCEPT !.pc = "dedup"]

(* What a worker has done for the event in hand, in order: the steps of    *)
(* start and _process_message it has completed since poll() returned.      *)
Did(r, names) == [r EXCEPT !.steps = @ \o names]

(* _process_message is entered by the retry loop; the InboundMessage   *)
(* constructor raises a validation error for an object outside the schema. *)
ParseInbound(w) ==
    /\ wk[w].pc = "attempt"
    /\ LET r == [wk[w] EXCEPT !.calls = @ + 1, !.dedup = "none"] IN
       wk' = [wk EXCEPT ![w] =
                IF r.message_data.schema
                THEN AfterValidation(r)
                ELSE Raised(r)]
    /\ UNCHANGED <<settings, queue, polled, committed, dlq, customers,
                   customer_identifiers, conversations, messages, tickets,
                   nextId, now, faults, webforms, links, hist, ticks,
                   escalations, desk, door>>

(* A guard that takes an event for a duplicate when its lookup fails.      *)
check_message_deduplication_open(raised, result) ==
    IF raised THEN TRUE ELSE result

(* _check_message_deduplication: what it returns when the query raised     *)
(* ("On error, assume not duplicate") and when it returned a row or none.  *)
check_message_deduplication(raised, result) ==
    IF raised THEN FALSE ELSE result

(* "if is_duplicate: ... return": a duplicate makes _process_message       *)
(* return normally; otherwise it goes on to the customer.                  *)
CheckDeduplication(w) ==
    /\ wk[w].pc = "dedup"
    /\ LET md == wk[w].message_data
           dup == \E m \in messages :
                     /\ m.channel = md.channel
                     /\ m.channel_message_id = md.channel_message_id
           after(raised) ==
              [wk EXCEPT
                 ![w].pc = IF check_message_deduplication(raised, dup)
                           THEN "commit_dup" ELSE "cust_lookup",
                 ![w].dedup = IF raised THEN "failed"
                              ELSE IF dup THEN "found" ELSE "fresh",
                 ![w].steps = @ \o
                    (IF check_message_deduplication(raised, dup)
                     THEN <<"dedup", "skip">> ELSE <<"dedup">>)]
       IN \/ /\ faults > 0
             /\ faults' = faults - 1
             /\ wk' = after(TRUE)
          \/ /\ UNCHANGED faults
             /\ wk' = after(FALSE)
    /\ UNCHANGED <<settings, queue, polled, committed, dlq, customers,
                   customer_identifiers, conversations, messages, tickets,
                   nextId, now, webforms, links, hist, ticks,
                   escalations, desk, door>>

(***************************************************************************)
(* _get_or_create_customer, one action per awaited statement.  Each        *)
(* statement runs on its own pooled connection (DatabaseService.execute),  *)
(* so nothing groups them into a transaction.                              *)
(***************************************************************************)
Resolution(w, r, id) ==
    [idtype |-> identifier_type(r.message_data.channel),
     value |-> r.message_data.customer_identifier,
     channel |-> r.message_data.channel,
     id |-> id, known |-> r.known, created |-> r.created]

NoteResolved(w, r, id) ==
    [hist EXCEPT
        !.resolved[w] = Resolution(w, r, id),
        !.resolvedByEmail =
            IF identifier_type(r.message_data.channel) = "email"
            THEN @ \cup {id} ELSE @]

(* lookup_query; when no row matches, uuid4() names the customer to create *)
LookupCustomer(w) ==
    /\ wk[w].pc = "cust_lookup"
    /\ LET md == wk[w].message_data
           rows == IdentifierRows(identifier_type(md.channel),
                                  md.customer_identifier)
           owner == { ci.customer_id :
                        ci \in IdentifierRows("email", md.customer_identifier) }
           r == [wk[w] EXCEPT
                   !.known = IF owner = {} THEN 0 ELSE CHOOSE x \in owner : TRUE,
                   !.created = FALSE]
       IN \/ /\ faults > 0
             /\ faults' = faults - 1
             /\ wk' = [wk EXCEPT ![w] = Raised(wk[w])]
             /\ UNCHANGED <<nextId, hist>>
          \/ /\ rows # {}
             /\ \E ci \in rows :
                  /\ wk' = [wk EXCEPT ![w] =
                              Did([r EXCEPT !.customer_id = ci.customer_id,
                                            !.pc = "conv_lookup"],
                                  <<"customer">>)]
                  /\ hist' = NoteResolved(w, r, ci.customer_id)
             /\ UNCHANGED <<nextId, faults>>
          \/ /\ rows = {}
             /\ wk' = [wk EXCEPT ![w] =
                         [r EXCEPT !.customer_id = nextId,
                                   !.pc = "cust_insert"]]
             /\ nextId' = nextId + 1
             /\ UNCHANGED <<faults, hist>>
    /\ UNCHANGED <<settings, queue, polled, committed, dlq, customers,
                   customer_identifiers, conversations, messages, tickets,
                   now, webforms, links, ticks, escalations, desk, door>>

(* create_customer_query                                                   *)
InsertCustomer(w) ==
    /\ wk[w].pc = "cust_insert"
    /\ LET md == wk[w].message_data
           idtype == identifier_type(md.channel)
       IN \/ /\ faults > 0
             /\ faults' = faults - 1
             /\ wk' = [wk EXCEPT ![w] = Raised(wk[w])]
             /\ UNCHANGED <<customers, hist>>
          \/ /\ customers' = customers \cup
                   {[id |-> wk[w].customer_id,
                     primary_email |-> primary_email(md.customer_identifier,
                                                     idtype),
                     primary_phone |-> primary_phone(md.customer_identifier,
                                                     idtype),
                     escalation_count |-> 0]}
             /\ wk' = [wk EXCEPT ![w] =
                         Did([@ EXCEPT !.pc = "ident_insert",
                                       !.created = TRUE], <<"write">>)]
             /\ hist' = [hist EXCEPT !.workerCreated = @ \cup
                           {[id |-> wk[w].customer_id, idtype |-> idtype,
                             value |-> md.customer_identifier, by |-> w]}]
             /\ UNCHANGED faults
    /\ UNCHANGED <<settings, queue, polled, committed, dlq,
                   customer_identifiers, conversations, messages, tickets,
                   nextId, now, webforms, links, ticks, escalations, desk,
                   door>>

(* create_identifier_query: a plain INSERT, which the uniqueness           *)
(* constraint on (identifier_type, identifier_value) rejects when the      *)
(* identifier exists.                                                      *)
InsertIdentifier(w) ==
    /\ wk[w].pc = "ident_insert"
    /\ LET md == wk[w].message_data
           idtype == identifier_type(md.channel)
       IN \/ /\ faults > 0
             /\ faults' = faults - 1
             /\ wk' = [wk EXCEPT ![w] = Raised(wk[w])]
             /\ UNCHANGED <<customer_identifiers, hist>>
          \/ /\ IdentifierRows(idtype, md.customer_identifier) # {}
             /\ wk' = [wk EXCEPT ![w] = Raised(wk[w])]
             /\ UNCHANGED <<customer_identifiers, hist, faults>>
          \/ /\ IdentifierRows(idtype, md.customer_identifier) = {}
             /\ customer_identifiers' = customer_identifiers \cup
                   {[customer_id |-> wk[w].customer_id,
                     identifier_type |-> idtype,
                     identifier_value |-> md.customer_identifier,
                     verified |-> FALSE]}
             /\ wk' = [wk EXCEPT ![w] =
                         Did([@ EXCEPT !.pc = "conv_lookup"],
                             <<"write", "customer">>)]
             /\ hist' = NoteResolved(w, wk[w], wk[w].customer_id)
             /\ UNCHANGED faults
    /\ UNCHANGED <<settings, queue, polled, committed, dlq, customers,
                   conversations, messages, tickets, nextId, now, webforms,
                   links, ticks, escalations, desk, door>>

(***************************************************************************)
(* _get_or_create_conversation                                             *)
(***************************************************************************)
(* What the lookup of worker w met: the customer's active conversations    *)
(* with the hours since the last message on each, and the conversation the *)
(* event went to (the row in found, or a new one when found is empty).     *)
NoteSession(w, id, found) ==
    [customer |-> wk[w].customer_id, at |-> now,
     open |-> { [id |-> d.id, gap |-> now - hist.lastMessageAt[d.id]] :
                  d \in { x \in conversations :
                            /\ x.customer_id = wk[w].customer_id
                            /\ x.status = "active" } },
     active |-> { [id |-> d.id, started_at |-> d.started_at] :
                    d \in { x \in conversations :
                              /\ x.customer_id = wk[w].customer_id
                              /\ x.status = "active" } },
     conversation |-> id, created |-> (found = {}),
     channel |-> wk[w].message_data.channel,
     initial_channel |->
        IF found = {} THEN NULL ELSE (CHOOSE c \in found : TRUE).initial_channel,
     switches |->
        IF found = {} THEN 0
        ELSE Len((CHOOSE c \in found : TRUE).channel_switches)]

LookupConversation(w) ==
    /\ wk[w].pc = "conv_lookup"
    /\ \/ /\ faults > 0
          /\ faults' = faults - 1
          /\ wk' = [wk EXCEPT ![w] = Raised(wk[w])]
          /\ UNCHANGED <<nextId, hist>>
       \/ /\ LatestActive(wk[w].customer_id) # {}
          /\ \E c \in LatestActive(wk[w].customer_id) :
               /\ wk' = [wk EXCEPT ![w] =
                           Did([@ EXCEPT !.conversation_id = c.id,
                                         !.pc = "agent"],
                               <<"conversation">>)]
               /\ hist' = [hist EXCEPT
                             !.session[w] = NoteSession(w, c.id, {c}),
                             !.lastMessageAt[c.id] = now]
          /\ UNCHANGED <<nextId, faults>>
       \/ /\ LatestActive(wk[w].customer_id) = {}
          /\ wk' = [wk EXCEPT ![w].conversation_id = nextId,
                              ![w].pc = "conv_insert"]
          /\ hist' = [hist EXCEPT !.session[w] = NoteSession(w, nextId, {})]
          /\ nextId' = nextId + 1
          /\ UNCHANGED faults
    /\ UNCHANGED <<settings, queue, polled, committed, dlq, customers,
                   customer_identifiers, conversations, messages, tickets,
                   now, webforms, links, ticks, escalations, desk, door>>

InsertConversation(w) ==
    /\ wk[w].pc = "conv_insert"
    /\ \/ /\ faults > 0
          /\ faults' = faults - 1
          /\ wk' = [wk EXCEPT ![w] = Raised(wk[w])]
          /\ UNCHANGED <<conversations, hist>>
       \/ /\ conversations' = conversations \cup
                {[id |-> wk[w].conversation_id,
                  customer_id |-> wk[w].customer_id,
                  initial_channel |-> wk[w].message_data.channel,
                  status |-> "active", started_at |-> now,
                  ended_at |-> <<>>, channel_switches |-> <<>>]}
          /\ wk' = [wk EXCEPT ![w] =
                      Did([@ EXCEPT !.pc = "agent"],
                          <<"write", "conversation">>)]
          /\ hist' = [hist EXCEPT !.lastMessageAt =
                        (wk[w].conversation_id :> now) @@ @]
          /\ UNCHANGED faults
    /\ UNCHANGED <<settings, queue, polled, committed, dlq, customers,
                   customer_identifiers, messages, tickets, nextId, now,
                   webforms, links, ticks, escalations, desk, door>>

(***************************************************************************)
(* The handoff: self._agent.process_message returns a result whose status  *)
(* is success or error; an error result is raised by _process_message.     *)
(* The call is awaited as it is: nothing around it (no asyncio.wait_for,   *)
(* no argument of Runner.run) carries Settings.AGENT_RESPONSE_TIMEOUT, so  *)
(* a worker whose engine stays silent remains suspended in the await.      *)
(***************************************************************************)
InvokeAgent(w) ==
    /\ wk[w].pc = "agent"
    /\ \/ /\ wk' = [wk EXCEPT ![w] =
                      Did([@ EXCEPT !.pc = "commit"],
                          <<"engine", "returned">>)]
          /\ hist' = [hist EXCEPT
                        !.handoffs = Bump(@, Key(wk[w].message_data))]
          /\ UNCHANGED faults
       \/ /\ faults > 0
          /\ faults' = faults - 1
          /\ wk' = [wk EXCEPT ![w] = Raised(Did(wk[w], <<"engine">>))]
          /\ UNCHANGED hist
       \/ /\ faults > 0
          /\ faults' = faults - 1
          /\ wk' = [wk EXCEPT ![w] =
                      Did([@ EXCEPT !.pc = "awaiting"], <<"engine">>)]
          /\ UNCHANGED hist
    /\ UNCHANGED <<settings, queue, polled, committed, dlq, customers,
                   customer_identifiers, conversations, messages, tickets,
                   nextId, now, webforms, links, ticks, escalations, desk,
                   door>>

(***************************************************************************)
(* MessageProcessor.start, after the retry loop.                           *)
(***************************************************************************)
Snapshot(r, outcome) ==
    [outcome |-> outcome, calls |-> r.calls, failures |-> r.failures,
     delays |-> r.delays, published |-> r.published,
     schema |-> r.message_data.schema, json |-> r.bound]

(* "Commit offset after successful processing": reached when the handler   *)
(* returned, having handed the event over or skipped it as a duplicate.    *)
(* A commit that raises is caught by the except branch below it.           *)
CommitProcessed(w) ==
    /\ wk[w].pc \in {"commit", "commit_dup"}
    /\ \/ /\ faults > 0
          /\ faults' = faults - 1
          /\ wk' = [wk EXCEPT ![w].pc = "except"]
          /\ UNCHANGED <<committed, hist>>
       \/ \* commit() on a consumer that was closed raises
          /\ wk[w].closed
          /\ wk' = [wk EXCEPT ![w].pc = "except"]
          /\ UNCHANGED <<committed, hist, faults>>
       \/ /\ ~wk[w].closed
          /\ committed' = [committed EXCEPT ![w] = polled[w]]
          /\ wk' = [wk EXCEPT ![w] =
                      Did([@ EXCEPT !.pc = "poll"], <<"commit">>)]
          /\ hist' = [hist EXCEPT
                !.consumed = Bump(@, Key(wk[w].message_data)),
                !.last[w] = Snapshot(wk[w],
                    IF wk[w].pc = "commit" THEN "processed" ELSE "duplicate")]
          /\ UNCHANGED faults
    /\ UNCHANGED <<settings, queue, polled, dlq, customers,
                   customer_identifiers, conversations, messages, tickets,
                   nextId, now, webforms, links, ticks, escalations, desk,
                   door>>

(* The except branch: _publish_to_dlq(message_data, str(e)).  Reading a    *)
(* message_data that no turn of the loop has assigned raises               *)
(* UnboundLocalError out of start, whose finally clause stops the worker.  *)
(* _publish_to_dlq logs and swallows a failure of the publish.             *)
PublishToDlq(w) ==
    /\ wk[w].pc = "except"
    /\ \/ /\ ~wk[w].bound
          /\ wk' = [wk EXCEPT ![w] = Stopped(@)]
          /\ hist' = [hist EXCEPT !.last[w] = Snapshot(wk[w], "crashed")]
          /\ UNCHANGED <<dlq, faults>>
       \/ /\ wk[w].bound
          /\ dlq' = Append(dlq, [original_message |-> wk[w].message_data,
                                 source |-> "message_processor",
                                 failed |-> Current(w)])
          /\ wk' = [wk EXCEPT ![w] =
                      Did([@ EXCEPT !.pc = "commit_failed",
                                    !.published = @ + 1],
                          <<"dlq", "published">>)]
          /\ UNCHANGED <<faults, hist>>
       \/ /\ wk[w].bound
          /\ faults > 0
          /\ faults' = faults - 1
          /\ wk' = [wk EXCEPT ![w] =
                      Did([@ EXCEPT !.pc = "commit_failed"], <<"dlq">>)]
          /\ UNCHANGED <<dlq, hist>>
    /\ UNCHANGED <<settings, queue, polled, committed, customers,
                   customer_identifiers, conversations, messages, tickets,
                   nextId, now, webforms, links, ticks, escalations, desk,
                   door>>

(* "Still commit to avoid reprocessing bad message"; a commit that raises  *)
(* here leaves start through its finally clause.                           *)
CommitFailed(w) ==
    /\ wk[w].pc = "commit_failed"
    /\ \/ /\ faults > 0
          /\ faults' = faults - 1
          /\ wk' = [wk EXCEPT ![w] = Stopped(@)]
          /\ hist' = [hist EXCEPT !.last[w] = Snapshot(wk[w], "crashed")]
          /\ UNCHANGED committed
       \/ \* commit() on a consumer that was closed raises
          /\ wk[w].closed
          /\ wk' = [wk EXCEPT ![w] = Stopped(@)]
          /\ hist' = [hist EXCEPT !.last[w] = Snapshot(wk[w], "crashed")]
          /\ UNCHANGED <<committed, faults>>
       \/ /\ ~wk[w].closed
          /\ committed' = [committed EXCEPT ![w] = polled[w]]
          /\ wk' = [wk EXCEPT ![w] =
                      Did([@ EXCEPT !.pc = "poll"], <<"commit">>)]
          /\ hist' = [hist EXCEPT !.last[w] = Snapshot(wk[w], "failed")]
          /\ UNCHANGED faults
    /\ UNCHANGED <<settings, queue, polled, dlq, customers,
                   customer_identifiers, conversations, messages, tickets,
                   nextId, now, webforms, links, ticks, escalations, desk,
                   door>>

(***************************************************************************)
(* Shutdown.  start holds the event loop except while it awaits: poll() is *)
(* a blocking call, so another task, or the cancellation asyncio.run       *)
(* delivers on SIGINT, reaches the worker only inside an awaited call of   *)
(* _process_message, that is, while an event is in flight.                 *)
(***************************************************************************)
Awaiting ==
    {"dedup", "cust_lookup", "cust_insert", "ident_insert", "conv_lookup",
     "conv_insert", "agent", "awaiting"}

(* MessageProcessor.stop called by another task: the flag is cleared and   *)
(* the consumer closed at once; start goes on from its await.              *)
stop(w) ==
    /\ desk.stops > 0
    /\ wk[w].pc \in Awaiting
    /\ ~wk[w].closed
    /\ desk' = [desk EXCEPT !.stops = @ - 1]
    /\ wk' = [wk EXCEPT ![w] = [Closed(@) EXCEPT !.stop_offset = polled[w]]]
    /\ UNCHANGED <<settings, queue, polled, committed, dlq, customers,
                   customer_identifiers, conversations, messages, tickets,
                   nextId, now, faults, webforms, links, hist, ticks,
                   escalations, door>>

(* The task is cancelled in its await: CancelledError is no Exception, so  *)
(* neither handler of start catches it and the finally clause awaits stop. *)
Interrupt(w) ==
    /\ desk.stops > 0
    /\ wk[w].pc \in Awaiting
    /\ ~wk[w].closed
    /\ desk' = [desk EXCEPT !.stops = @ - 1]
    /\ wk' = [wk EXCEPT ![w] = [Stopped(@) EXCEPT !.stop_offset = polled[w]]]
    /\ UNCHANGED <<settings, queue, polled, committed, dlq, customers,
                   customer_identifiers, conversations, messages, tickets,
                   nextId, now, faults, webforms, links, hist, ticks,
                   escalations, door>>

(***************************************************************************)
(* handle_webform_submission.  The producer places a record by the hash of *)
(* its key (here the submitter's address), so every submission of one      *)
(* address lands in one partition; a partition other than the one the      *)
(* initial records of the front-door scenario sit in lets the two          *)
(* consumers work on the same customer at once.                            *)
(***************************************************************************)
Partition(key) == IF key = EmailA THEN "w2" ELSE "w1"

(* The key each channel adapter passes to kafka_producer.publish for an    *)
(* event of the given address or number.                                   *)
gmail_key(customer_email) == "email-" \o customer_email

webform_key(email) == email

whatsapp_key(sender_phone) == sender_phone

(* The key the record rec was published with, by its adapter.              *)
PartitionKey(rec) ==
    CASE rec.channel = "email" -> gmail_key(rec.customer_identifier)
      [] rec.channel = "webform" -> webform_key(rec.customer_identifier)
      [] OTHER -> whatsapp_key(rec.customer_identifier)

WebformRows(email, cid, base, prio, priority) ==
    /\ conversations' = conversations \cup
          {[id |-> base, customer_id |-> cid, initial_channel |-> "webform",
            status |-> "active", started_at |-> now, ended_at |-> <<>>,
            channel_switches |-> <<>>]}
    /\ tickets' = tickets \cup
          {[id |-> base + 1, conversation_id |-> base, customer_id |-> cid,
            source_channel |-> "webform", category |-> "general",
            priority |-> prio, status |-> "open",
            escalation_reason |-> NULL, updated_at |-> <<>>]}
    /\ messages' = messages \cup
          {[id |-> base + 2, conversation_id |-> base, channel |-> "webform",
            channel_message_id |-> NULL, created_at |-> now,
            updated_at |-> <<>>]}
    /\ queue' = [queue EXCEPT ![Partition(webform_key(email))] =
                    Append(@, Event("webform", ToString(base + 2), email))]
    /\ nextId' = base + 3
    /\ hist' = [hist EXCEPT
                  !.lastMessageAt = (base :> now) @@ @,
                  !.creations = @ \cup
                     { Creation(t, NULL, priority, "webform") :
                         t \in { x \in tickets' : x.id = base + 1 } }]

handle_webform_submission(email, priority) ==
    /\ webforms > 0
    /\ webforms' = webforms - 1
    /\ LET found == { c \in customers : c.primary_email = email }
           prio == IF Default(priority, "normal") = "high"
                   THEN "high" ELSE "medium"
       IN \/ /\ found # {}
             /\ \E c \in found :
                  WebformRows(email, c.id, nextId, prio, priority)
             /\ UNCHANGED <<customers, customer_identifiers>>
          \/ /\ found = {}
             /\ customers' = customers \cup
                   {[id |-> nextId, primary_email |-> email,
                     primary_phone |-> NULL, escalation_count |-> 0]}
             /\ IF IdentifierRows("email", email) # {}
                THEN /\ nextId' = nextId + 1
                     /\ UNCHANGED <<customer_identifiers, conversations,
                                    tickets, messages, queue, hist>>
                ELSE /\ customer_identifiers' = customer_identifiers \cup
                          {[customer_id |-> nextId,
                            identifier_type |-> "email",
                            identifier_value |-> email, verified |-> TRUE]}
                     /\ WebformRows(email, nextId, nextId + 1, prio, priority)
    /\ UNCHANGED <<settings, polled, committed, dlq, wk, now, faults, links,
                   ticks, escalations, desk, door>>

(***************************************************************************)
(* DatabaseService.create_or_update_customer_identifier: INSERT ... ON     *)
(* CONFLICT (identifier_type, identifier_value) DO UPDATE SET verified.    *)
(***************************************************************************)
(* An upsert whose DO UPDATE also takes over the identifier's owner.       *)
UpsertReassign(rows, customer_id, idtype, value, verified) ==
    { ci \in rows : ~(ci.identifier_type = idtype
                      /\ ci.identifier_value = value) }
    \cup {[customer_id |-> customer_id, identifier_type |-> idtype,
           identifier_value |-> value, verified |-> verified]}

Upsert(rows, customer_id, idtype, value, verified) ==
    IF \E ci \in rows : ci.identifier_type = idtype
                        /\ ci.identifier_value = value
    THEN { IF ci.identifier_type = idtype /\ ci.identifier_value = value
           THEN [ci EXCEPT !.verified = verified] ELSE ci : ci \in rows }
    ELSE rows \cup {[customer_id |-> customer_id, identifier_type |-> idtype,
                     identifier_value |-> value, verified |-> verified]}

create_or_update_customer_identifier(customer_id, idtype, value, verified) ==
    /\ links > 0
    /\ links' = links - 1
    /\ customer_identifiers' =
          Upsert(customer_identifiers, customer_id, idtype, value, verified)
    /\ hist' = [hist EXCEPT !.phoneLinked =
          IF /\ idtype = "phone"
             /\ customer_id \in hist.resolvedByEmail
             /\ \E ci \in customer_identifiers' :
                   /\ ci.identifier_type = idtype
                   /\ ci.identifier_value = value
                   /\ ci.customer_id = customer_id
          THEN @ \cup {<<value, customer_id>>} ELSE @]
    /\ UNCHANGED <<settings, queue, polled, committed, dlq, wk, customers,
                   conversations, messages, tickets, nextId, now, faults,
                   webforms, ticks, escalations, desk, door>>

(***************************************************************************)
(* DatabaseService.merge_conversations: three UPDATE statements, each on   *)
(* its own pooled connection; a statement that raises leaves the earlier   *)
(* ones in place.                                                          *)
(***************************************************************************)
(* An update that stamps the messages it moves with the time of the move.  *)
MoveMessagesRestamped(rows, primary, secondary) ==
    { IF row.conversation_id = secondary
      THEN [row EXCEPT !.conversation_id = primary, !.created_at = now,
                       !.updated_at = <<now>>]
      ELSE row : row \in rows }

(* update_messages_query: SET conversation_id = $1, updated_at = NOW().    *)
MoveMessages(rows, primary, secondary) ==
    { IF row.conversation_id = secondary
      THEN [row EXCEPT !.conversation_id = primary, !.updated_at = <<now>>]
      ELSE row : row \in rows }

(* update_tickets_query                                                    *)
MoveRows(rows, primary, secondary) ==
    { IF row.conversation_id = secondary
      THEN [row EXCEPT !.conversation_id = primary, !.updated_at = <<now>>]
      ELSE row : row \in rows }

(* A closing statement that has lost its WHERE clause.                     *)
CloseEveryRow(rows, secondary) ==
    { [row EXCEPT !.status = "closed", !.ended_at = <<now>>] : row \in rows }

CloseRow(rows, secondary) ==
    { IF row.id = secondary
      THEN [row EXCEPT !.status = "closed", !.ended_at = <<now>>]
      ELSE row : row \in rows }

merge_conversations(primary, secondary) ==
    /\ desk.merges > 0
    /\ desk' = [desk EXCEPT !.merges = @ - 1]
    /\ \/ /\ faults > 0
          /\ faults' = faults - 1
          /\ UNCHANGED <<messages, tickets, conversations, hist>>
       \/ /\ faults > 0
          /\ faults' = faults - 1
          /\ messages' = MoveMessages(messages, primary, secondary)
          /\ UNCHANGED <<tickets, conversations, hist>>
       \/ /\ faults > 0
          /\ faults' = faults - 1
          /\ messages' = MoveMessages(messages, primary, secondary)
          /\ tickets' = MoveRows(tickets, primary, secondary)
          /\ UNCHANGED <<conversations, hist>>
       \/ /\ messages' = MoveMessages(messages, primary, secondary)
          /\ tickets' = MoveRows(tickets, primary, secondary)
          /\ conversations' = CloseRow(conversations, secondary)
          /\ hist' = [hist EXCEPT
                        !.merges = Bump(@, <<primary, secondary>>),
                        !.moved = @ \cup { t \in tickets :
                                             t.conversation_id = secondary }]
          /\ UNCHANGED faults
    /\ UNCHANGED <<settings, queue, polled, committed, dlq, wk, customers,
                   customer_identifiers, nextId, now, webforms, links, ticks,
                   escalations, door>>

(***************************************************************************)
(* agent/tools.py: the function tools the agent may call while a worker    *)
(* awaits process_message.  Each runs to its return in one step; a         *)
(* statement that raises is caught by the tool's except clause, which      *)
(* returns a result and leaves the earlier statements in place.            *)
(***************************************************************************)
ToolReasons == {"pricing_inquiry", "negative_sentiment"}
ToolPriorities == {"high", "urgent"}

(* A tool whose INSERT stores the ticket as already being worked on.       *)
NewTicketInProgress(id, conversation_id, customer_id, source_channel, category, priority) ==
    [id |-> id, conversation_id |-> conversation_id,
     customer_id |-> customer_id, source_channel |-> source_channel,
     category |-> category, priority |-> priority, status |-> "in_progress",
     escalation_reason |-> NULL, updated_at |-> <<>>]

(* The row of the INSERT INTO tickets of create_ticket: the last value of  *)
(* the statement is the literal "open".                                    *)
NewTicket(id, conversation_id, customer_id, source_channel, category, priority) ==
    [id |-> id, conversation_id |-> conversation_id,
     customer_id |-> customer_id, source_channel |-> source_channel,
     category |-> category, priority |-> priority, status |-> "open",
     escalation_reason |-> NULL, updated_at |-> <<>>]

(* category: str = "general", priority: str = "medium"                     *)
create_ticket(w, conversation_id, category, priority) ==
    /\ desk.tools > 0
    /\ wk[w].pc = "agent"
    /\ desk' = [desk EXCEPT !.tools = @ - 1]
    /\ \/ /\ faults > 0
          /\ faults' = faults - 1
          /\ UNCHANGED <<tickets, nextId, hist>>
       \/ /\ LET row == NewTicket(nextId, conversation_id,
                                  wk[w].customer_id,
                                  wk[w].message_data.channel,
                                  Default(category, "general"),
                                  Default(priority, "medium"))
             IN /\ tickets' = tickets \cup {row}
                /\ hist' = [hist EXCEPT !.creations = @ \cup
                              {Creation(row, category, priority,
                                        "create_ticket")}]
          /\ nextId' = nextId + 1
          /\ UNCHANGED faults
    /\ UNCHANGED <<settings, queue, polled, committed, dlq, wk, customers,
                   customer_identifiers, conversations, messages, now,
                   webforms, links, ticks, escalations, door>>

(* An update that hands a resolved ticket back to the open queue.          *)
EscalatedReopening(rows, ticket_id, reason, priority) ==
    { IF t.id = ticket_id
      THEN [t EXCEPT !.status = IF t.status = "resolved" THEN "open"
                                ELSE "escalated",
                     !.escalation_reason = reason,
                     !.priority = priority, !.updated_at = <<now>>]
      ELSE t : t \in rows }

(* update_query: no condition on the ticket's current status.              *)
Escalated(rows, ticket_id, reason, priority) ==
    { IF t.id = ticket_id
      THEN [t EXCEPT !.status = "escalated", !.escalation_reason = reason,
                     !.priority = priority, !.updated_at = <<now>>]
      ELSE t : t \in rows }

(* The orders in which a query with ORDER BY created_at ASC may return     *)
(* the given rows: rows of one created_at come in any order.               *)
OrderByCreatedAt(rows) ==
    { s \in SeqsOfLen(rows, Cardinality(rows)) :
        /\ \A i, j \in 1..Len(s) : i # j => s[i] # s[j]
        /\ \A i, j \in 1..Len(s) : i < j => s[i].created_at <= s[j].created_at }

(* messages_query of escalate_ticket: the messages of a conversation, read *)
(* in created_at order (each as its id and created_at).                    *)
messages_query(rows, conversation_id) ==
    { [i \in 1..Len(s) |-> [id |-> s[i].id, created_at |-> s[i].created_at]] :
        s \in OrderByCreatedAt({ m \in rows :
                                   m.conversation_id = conversation_id }) }

escalation_payload(t, reason, priority) ==
    [ticket_id |-> t.id, escalation_reason |-> reason, priority |-> priority,
     customer |-> t.customer_id]

(* A tool that publishes for a ticket only when it was not yet escalated.  *)
PublishedOnce(t, reason, priority) ==
    IF t.status = "escalated" THEN <<>>
    ELSE <<escalation_payload(t, reason, priority)>>

(* kafka_producer.publish(topic="fte.escalations", ...): what one call     *)
(* that gets this far appends to the topic.                                *)
Published(t, reason, priority) == <<escalation_payload(t, reason, priority)>>

Counted(rows, customer_id) ==
    { IF c.id = customer_id
      THEN [c EXCEPT !.escalation_count = @ + 1] ELSE c : c \in rows }

(* UUID(ticket_id) accepts the text: the ids uuid4() hands out and 0, the  *)
(* id of no row, are UUIDs; a negative id stands for a text that is none.  *)
UUID(ticket_id) == ticket_id >= 0

(* A tool whose except clause logs and raises again.                       *)
Reraised(e) == "raised"

(* "except Exception as e: ... return {status: failed, error: str(e)}":    *)
(* the status of the result the tool returns for an exception e.           *)
Caught(e) == "failed"

(* What one call of escalate_ticket met and did.                           *)
CallRecord(ticket_id, before, after, published, counted, status) ==
    [ticket |-> ticket_id, before |-> before, after |-> after,
     published |-> published, counted |-> counted, status |-> status]

escalate_ticket(w, ticket_id, reason, priority) ==
    /\ desk.tools > 0
    /\ wk[w].pc = "agent"
    /\ desk' = [desk EXCEPT !.tools = @ - 1]
    /\ LET before == { t \in tickets : t.id = ticket_id }
           updated == Escalated(tickets, ticket_id, reason, priority)
           after == { t \in updated : t.id = ticket_id }
       IN \/ \* UUID(ticket_id) raises ValueError
             /\ ~UUID(ticket_id)
             /\ hist' = [hist EXCEPT !.calls = Append(@,
                   CallRecord(ticket_id, before, before, 0, FALSE,
                              Caught("ValueError")))]
             /\ UNCHANGED <<tickets, escalations, customers, faults>>
          \/ \* the UPDATE raises
             /\ UUID(ticket_id)
             /\ faults > 0
             /\ faults' = faults - 1
             /\ hist' = [hist EXCEPT !.calls = Append(@,
                   CallRecord(ticket_id, before, before, 0, FALSE,
                              Caught("storage")))]
             /\ UNCHANGED <<tickets, escalations, customers>>
          \/ \* "if not ticket: return {error: Ticket not found}"
             /\ UUID(ticket_id)
             /\ before = {}
             /\ hist' = [hist EXCEPT !.calls = Append(@,
                   CallRecord(ticket_id, before, before, 0, FALSE, "error"))]
             /\ UNCHANGED <<tickets, escalations, customers, faults>>
          \/ \* a query after the UPDATE, or the publish, raises
             /\ before # {}
             /\ faults > 0
             /\ faults' = faults - 1
             /\ tickets' = updated
             /\ hist' = [hist EXCEPT !.calls = Append(@,
                   CallRecord(ticket_id, before, after, 0, FALSE,
                              Caught("publish")))]
             /\ UNCHANGED <<escalations, customers>>
          \/ \* the UPDATE of customers raises
             /\ before # {}
             /\ faults > 0
             /\ faults' = faults - 1
             /\ tickets' = updated
             /\ \E t \in before :
                  /\ escalations' =
                        escalations \o Published(t, reason, priority)
                  /\ hist' = [hist EXCEPT !.calls = Append(@,
                        CallRecord(ticket_id, before, after,
                                   Len(Published(t, reason, priority)),
                                   FALSE, Caught("storage")))]
             /\ UNCHANGED customers
          \/ /\ before # {}
             /\ tickets' = updated
             /\ \E t \in before :
                  /\ escalations' =
                        escalations \o Published(t, reason, priority)
                  /\ customers' = Counted(customers, t.customer_id)
                  /\ hist' = [hist EXCEPT !.calls = Append(@,
                        CallRecord(ticket_id, before, after,
                                   Len(Published(t, reason, priority)),
                                   TRUE, "escalated"))]
             /\ UNCHANGED faults
    /\ UNCHANGED <<settings, queue, polled, committed, dlq, wk,
                   customer_identifiers, conversations, messages, nextId,
                   now, webforms, links, ticks, door>>

(* The external resolution signal: the support desk resolves a ticket that *)
(* is open.                                                                *)
ResolveTicket(ticket_id) ==
    /\ desk.tools > 0
    /\ desk' = [desk EXCEPT !.tools = @ - 1]
    /\ \E t \in tickets : t.id = ticket_id /\ t.status = "open"
    /\ tickets' = { IF t.id = ticket_id THEN [t EXCEPT !.status = "resolved"]
                    ELSE t : t \in tickets }
    /\ UNCHANGED <<settings, queue, polled, committed, dlq, wk, customers,
                   customer_identifiers, conversations, messages, nextId,
                   now, faults, webforms, links, ticks, escalations, hist,
                   door>>

(* A caller of detect_escalation_trigger and the tuple it is returned.     *)
Classify(text) ==
    /\ desk.probes > 0
    /\ desk' = [desk EXCEPT !.probes = @ - 1]
    /\ hist' = [hist EXCEPT !.verdicts = @ \cup
                  {[text |-> text, result |-> detect_escalation_trigger(text)]}]
    /\ UNCHANGED <<settings, queue, polled, committed, dlq, wk, customers,
                   customer_identifiers, conversations, messages, tickets,
                   nextId, now, faults, webforms, links, ticks, escalations,
                   door>>

(***************************************************************************)
(* The WhatsApp front door: the route twilio_whatsapp_webhook of main.py   *)
(* and handle_whatsapp_message of webhooks/twilio.py.                      *)
(***************************************************************************)
(* The names services/auth.py binds at module level besides its imports.   *)
AuthExports == {"logger", "settings", "WebhookAuthService", "auth_service"}

(* "from ..services.auth import <name>" succeeds.                          *)
Importable(name) == name \in AuthExports

(* The fields InboundMessage requires (metadata has a default).            *)
InboundMessageRequired ==
    {"channel", "customer_identifier", "content", "channel_message_id",
     "timestamp"}

(* The keys of the message dict handle_whatsapp_message publishes.         *)
WhatsAppPayloadFields ==
    {"channel", "channel_message_id", "sender", "content", "metadata"}

WhatsAppPrefix == "whatsapp:"

(* str.startswith, str.replace(old, "") and str.strip of Python.            *)
startswith(s, prefix) ==
    Len(s) >= Len(prefix) /\ SubSeq(s, 1, Len(prefix)) = prefix

RECURSIVE replace(_, _)
replace(s, old) ==
    IF Len(s) < Len(old) THEN s
    ELSE IF startswith(s, old)
         THEN replace(SubSeq(s, Len(old) + 1, Len(s)), old)
         ELSE SubSeq(s, 1, 1) \o replace(SubSeq(s, 2, Len(s)), old)

RECURSIVE strip(_)
strip(s) ==
    IF Len(s) = 0 THEN s
    ELSE IF SubSeq(s, 1, 1) = " " THEN strip(SubSeq(s, 2, Len(s)))
    ELSE IF SubSeq(s, Len(s), Len(s)) = " "
         THEN strip(SubSeq(s, 1, Len(s) - 1))
    ELSE s

(* normalize_phone_number: the prefix is taken off, the ends are stripped  *)
(* of blanks, and a number without a leading "+" is given "+1" when it is  *)
(* ten characters long and "+" otherwise.  Nothing removes a character     *)
(* from inside the number.                                                 *)
normalize_phone_number(phone) ==
    LET bare == IF startswith(phone, WhatsAppPrefix)
                THEN replace(phone, WhatsAppPrefix) ELSE phone
        normalized == strip(bare)
    IN IF startswith(normalized, "+") THEN normalized
       ELSE IF Len(normalized) = 10 THEN "+1" \o normalized
       ELSE "+" \o normalized

(* Numbers as the channel and its callers write them.                      *)
Phones ==
    { "whatsapp:+1234567890", "+1234567890", "2345678901",
      "whatsapp:234-567-8901", "447900000000", "whatsapp:+15550001",
      "(234) 567-8901", " 2345678901 " }

(* A caller of normalize_phone_number and the text it is returned.         *)
Normalize(phone) ==
    /\ desk.probes > 0
    /\ desk' = [desk EXCEPT !.probes = @ - 1]
    /\ hist' = [hist EXCEPT !.normalized = @ \cup
                  {[phone |-> phone, result |-> normalize_phone_number(phone)]}]
    /\ UNCHANGED <<settings, queue, polled, committed, dlq, wk, customers,
                   customer_identifiers, conversations, messages, tickets,
                   nextId, now, faults, webforms, links, ticks, escalations,
                   door>>

(* A request Twilio (or anyone) posts: the X-Twilio-Signature header is    *)
(* absent (NULL), or is not, or is, the signature of the request; the form *)
(* does or does not parse as TwilioWhatsAppWebhook.                        *)
HookRequest(signature, payload, MessageSid, From) ==
    [signature |-> signature, payload |-> payload,
     MessageSid |-> MessageSid, From |-> From]

HookRequests ==
    { HookRequest(sig, payload, "SM1", "whatsapp:+15550001") :
        sig \in {NULL, "invalid", "valid"}, payload \in BOOLEAN }

(* What handle_whatsapp_message does with a request: the status of the     *)
(* HTTPException it raises (0 when it returns), the status of the dict it  *)
(* returns, the duplicate lookups it makes and the records it publishes to *)
(* fte.channels.whatsapp.inbound.                                          *)
HookOutcome(raised, status, lookups, publish) ==
    [raised |-> raised, status |-> status, lookups |-> lookups,
     publish |-> publish]

handle_whatsapp_message(req) ==
    IF req.signature = NULL THEN HookOutcome(401, NULL, 0, <<>>)
    ELSE IF req.signature # "valid" THEN HookOutcome(401, NULL, 0, <<>>)
    ELSE IF ~req.payload THEN HookOutcome(400, NULL, 0, <<>>)
    ELSE IF \E m \in messages : /\ m.channel = "whatsapp"
                                 /\ m.channel_message_id = req.MessageSid
    THEN HookOutcome(0, "duplicate", 1, <<>>)
    ELSE HookOutcome(0, "received", 1,
            <<[key |-> whatsapp_key(normalize_phone_number(req.From)),
               schema |-> InboundMessageRequired
                            \subseteq WhatsAppPayloadFields,
               channel |-> "whatsapp",
               channel_message_id |-> req.MessageSid]>>)

HookResponse(req, status_code, status, lookups, published) ==
    [request |-> req, status_code |-> status_code, status |-> status,
     lookups |-> lookups, published |-> published]

(* The route.  Its first statement imports handle_whatsapp_message, and    *)
(* webhooks/twilio.py in turn imports validate_twilio_signature from       *)
(* services/auth.py: an ImportError there leaves the route before its try  *)
(* block, and the framework answers 500.  Inside the try block every       *)
(* exception, the handler's HTTPException included, is turned into the     *)
(* body {status: error} of a 200 response.                                 *)
twilio_whatsapp_webhook(req) ==
    /\ desk.hooks > 0
    /\ desk' = [desk EXCEPT !.hooks = @ - 1]
    /\ IF ~Importable("validate_twilio_signature")
       THEN door' = [door EXCEPT !.responses =
                       Append(@, HookResponse(req, 500, NULL, 0, 0))]
       ELSE LET o == handle_whatsapp_message(req) IN
            door' = [responses |->
                        Append(door.responses,
                               HookResponse(req, 200,
                                   IF o.raised # 0 THEN "error" ELSE o.status,
                                   o.lookups, Len(o.publish))),
                     whatsapp_inbound |-> door.whatsapp_inbound \o o.publish]
    /\ UNCHANGED <<settings, queue, polled, committed, dlq, wk, customers,
                   customer_identifiers, conversations, messages, tickets,
                   nextId, now, faults, webforms, links, ticks, escalations,
                   hist>>

(* Time passes.                                                            *)
Tick ==
    /\ ticks # <<>>
    /\ ticks' = Tail(ticks)
    /\ now' = now + Head(ticks)
    /\ UNCHANGED <<settings, queue, polled, committed, dlq, wk, customers,
                   customer_identifiers, conversations, messages, tickets,
                   nextId, faults, webforms, links, hist, escalations, desk,
                   door>>

WorkerStep(w) ==
    \/ Poll(w)
    \/ ParseInbound(w)
    \/ CheckDeduplication(w)
    \/ LookupCustomer(w)
    \/ InsertCustomer(w)
    \/ InsertIdentifier(w)
    \/ LookupConversation(w)
    \/ InsertConversation(w)
    \/ InvokeAgent(w)
    \/ CommitProcessed(w)
    \/ PublishToDlq(w)
    \/ CommitFailed(w)

Next ==
    \/ \E w \in Workers : WorkerStep(w)
    \/ \E priority \in {NULL, "high"} :
          handle_webform_submission(EmailA, priority)
    \/ \E c \in customers, idtype \in {"email", "phone"}, v \in BOOLEAN :
          create_or_update_customer_identifier(
              c.id, idtype, IF idtype = "email" THEN EmailA ELSE PhoneP, v)
    \/ \E p \in conversations, c \in conversations :
          p.id # c.id /\ merge_conversations(p.id, c.id)
    \/ \E text \in Texts : Classify(text)
    \/ \E phone \in Phones : Normalize(phone)
    \/ \E w \in Workers, category \in {NULL, "billing"},
          priority \in {NULL, "high"} :
          create_ticket(w, wk[w].conversation_id, category, priority)
    \/ \E w \in Workers, id \in {t.id : t \in tickets} \cup {0, -1},
          reason \in ToolReasons, priority \in ToolPriorities :
          escalate_ticket(w, id, reason, priority)
    \/ \E t \in tickets : ResolveTicket(t.id)
    \/ \E req \in HookRequests : twilio_whatsapp_webhook(req)
    \/ \E w \in Workers : stop(w)
    \/ \E w \in Workers : Interrupt(w)
    \/ Tick

Spec == Init /\ [][Next]_vars

(***************************************************************************)
(* Properties.                                                             *)
(***************************************************************************)
MaxAttempts == settings.MESSAGE_RETRY_MAX_ATTEMPTS

StoredMessages(k) ==
    { m \in messages : m.channel = k[1] /\ m.channel_message_id = k[2] }

(* C1: an event the worker has consumed one or more times has exactly one  *)
(* stored Message with its (channel, channel_message_id) and was handed to *)
(* the reasoning engine at most once.                                      *)
C1_Idempotent ==
    \A k \in DOMAIN hist.consumed :
        /\ Cardinality(StoredMessages(k)) = 1
        /\ Count(hist.handoffs, k) <= 1

(* C2: the retry loop never invokes the handler more often than the        *)
(* configured maximum; a handler that failed on every attempt is given up  *)
(* only after exactly that many invocations, and once it has failed that   *)
(* many times the failure is with the consumer loop (its except branch and *)
(* what follows), neither retried again nor taken for a success.           *)
C2_ExactlyMaxAttempts ==
    \A w \in Workers :
        /\ wk[w].calls <= MaxAttempts
        /\ (wk[w].pc = "except" /\ wk[w].calls > 0
              /\ wk[w].failures = wk[w].calls) => wk[w].calls = MaxAttempts
        /\ wk[w].failures = MaxAttempts =>
              wk[w].pc \in {"except", "commit_failed", "poll", "stopped"}

C2_Witness ==
    \E w \in Workers :
        /\ MaxAttempts >= 3
        /\ wk[w].pc = "except"
        /\ wk[w].failures = MaxAttempts
        /\ wk[w].calls = MaxAttempts

(* C3: an event whose every attempt failed has been published to the       *)
(* dead-letter topic exactly once when its offset is committed.            *)
C3_DeadLetteredOnce ==
    \A w \in Workers :
        (hist.last[w].outcome = "failed"
           /\ hist.last[w].failures = MaxAttempts)
        => hist.last[w].published = 1

(* C4: a worker does not leave its consumer loop while an event it polled  *)
(* is still uncommitted.                                                   *)
C4_EveryPolledEventCommitted ==
    \A w \in Workers :
        polled[w] > committed[w] => wk[w].pc # "stopped"

(* C5: for an event that fails validation (not JSON, or outside the        *)
(* InboundMessage schema) the handler runs at most once and no backoff     *)
(* delay is slept.                                                         *)
C5_ValidationNotRetried ==
    \A w \in Workers :
        (polled[w] > 0 /\ ~Current(w).schema)
        => (wk[w].calls <= 1 /\ wk[w].delays = <<>>)

StrictlyIncreasing(d) == \A i \in 1..(Len(d) - 1) : d[i] < d[i + 1]

NonDecreasing(d) == \A i \in 1..(Len(d) - 1) : d[i] <= d[i + 1]

(* C6 as stated: under every permitted configuration the delays slept      *)
(* between the failed attempts of one event are strictly increasing.       *)
C6_StrictlyIncreasing ==
    \A w \in Workers : StrictlyIncreasing(wk[w].delays)

(* C6 as amended: the delays are non-decreasing under every configuration, *)
(* and strictly increasing when the backoff factor is at least 2.          *)
C6_IncreasingFromFactorTwo ==
    \A w \in Workers :
        /\ NonDecreasing(wk[w].delays)
        /\ settings.MESSAGE_RETRY_BACKOFF_FACTOR >= 2 =>
              StrictlyIncreasing(wk[w].delays)

C6_Witness ==
    \E w \in Workers :
        /\ settings.MESSAGE_RETRY_BACKOFF_FACTOR >= 2
        /\ Len(wk[w].delays) >= 2

CustomersCreatedFor(idtype, value) ==
    { c \in customers :
        /\ c.primary_email = primary_email(value, idtype)
        /\ c.primary_phone = primary_phone(value, idtype) }

(* C7: two workers that have resolved the same, previously unknown         *)
(* identifier hold the same customer id, and one Customer exists for it.   *)
C7_RaceOneCustomer ==
    \A w1, w2 \in Workers :
        LET a == hist.resolved[w1]
            b == hist.resolved[w2]
        IN (/\ w1 # w2
            /\ a.value # NULL
            /\ a.idtype = b.idtype
            /\ a.value = b.value
            /\ (a.created \/ b.created))
           => /\ a.id = b.id
              /\ Cardinality(CustomersCreatedFor(a.idtype, a.value)) = 1

(* C8: a Customer the worker created has the Identifier it was created     *)
(* for, as soon as the worker is past the statement that inserts it.       *)
C8_CustomerHasIdentifier ==
    \A x \in hist.workerCreated :
        \/ (wk[x.by].pc = "ident_insert" /\ wk[x.by].customer_id = x.id)
        \/ \E ci \in customer_identifiers :
              /\ ci.customer_id = x.id
              /\ ci.identifier_type = x.idtype
              /\ ci.identifier_value = x.value

(* C9: a webform event whose customer_identifier is an email that          *)
(* identifies a Customer resolves to that Customer and creates none.       *)
C9_WebformEmailResolves ==
    \A w \in Workers :
        (hist.resolved[w].channel = "webform" /\ hist.resolved[w].known # 0)
        => (hist.resolved[w].id = hist.resolved[w].known
            /\ ~hist.resolved[w].created)

(* C10: a phone number linked to a customer that was resolved by email     *)
(* resolves to that customer, by find_customer_by_phone and by             *)
(* find_customer_by_any_identifier, whatever identifier operations follow. *)
C10_IdentityConvergence ==
    \A x \in hist.phoneLinked :
        /\ find_customer_by_phone(x[1]) = {x[2]}
        /\ find_customer_by_any_identifier(NULL, x[1], NULL) = {x[2]}

C10_Witness ==
    /\ links = 0
    /\ Cardinality(customers) >= 2
    /\ \E x \in hist.phoneLinked : find_customer_by_phone(x[1]) = {x[2]}

(* C11: each customer has at most one active conversation whose started-at *)
(* lies within the reuse window, whoever wrote the conversations (workers  *)
(* on the same customer, the web form handler).                            *)
C11_OneActiveConversation ==
    \A c \in customers : Cardinality(ActiveConversations(c.id)) <= 1

(* C12: an event arriving 23 hours after the last message on an active     *)
(* conversation of its customer is attached to that conversation, and an   *)
(* event arriving 25 hours after the last message on every active          *)
(* conversation opens a new one, whenever the conversations were started.  *)
C12_SessionWindow ==
    \A w \in Workers :
        LET s == hist.session[w] IN
        /\ \A p \in s.open :
              p.gap = ReuseWindowHours - 1 => s.conversation = p.id
        /\ (s.open # {} /\ \A p \in s.open : p.gap = ReuseWindowHours + 1)
              => s.created

(* C13: once the worker has attached an event to an existing active        *)
(* conversation, that conversation's channel-switch log is one record      *)
(* longer than the lookup found it when the conversation's initiating      *)
(* channel differs from the event's channel, and as long as it was when    *)
(* the channels are equal.                                                 *)
C13_ChannelSwitchLogged ==
    \A w \in Workers :
        LET s == hist.session[w] IN
        (/\ wk[w].pc \in {"agent", "commit"}
         /\ ~s.created
         /\ s.conversation = wk[w].conversation_id)
        => \A c \in conversations :
              c.id = s.conversation =>
                 Len(c.channel_switches) =
                    s.switches + (IF s.initial_channel # s.channel
                                  THEN 1 ELSE 0)

(* The state a completed merge of (primary, secondary) leaves: no message  *)
(* and no ticket is in the secondary, which is closed.                     *)
Merged(pr) ==
    /\ Count(hist.merges, pr) >= 1
    /\ \A m \in messages : m.conversation_id # pr[2]
    /\ \A t \in tickets : t.conversation_id # pr[2]
    /\ \A c \in conversations : c.id = pr[2] => c.status = "closed"

(* C14: a merge_conversations(primary, secondary) that runs to its end on  *)
(* the state a first run left changes nothing: the conversation of every   *)
(* message and ticket, their update stamps, and the status and ended-at of *)
(* the secondary stay as they were.                                        *)
C14_MergeIdempotent ==
    [][\A p \in conversations, c \in conversations :
          (/\ Merged(<<p.id, c.id>>)
           /\ hist'.merges = Bump(hist.merges, <<p.id, c.id>>))
          => UNCHANGED <<conversations, messages, tickets>>]_vars

(* The categories in the order the claim fixes, by the reason reported.    *)
CategoryOrder ==
    <<"pricing_inquiry", "refund_request", "legal_matter",
      "profanity_aggressive_language", "explicit_human_request">>

Range(seq) == { seq[i] : i \in 1..Len(seq) }

KeywordsOf(reason) ==
    CASE reason = "pricing_inquiry" -> Range(ESCALATION_KEYWORDS.pricing)
      [] reason = "refund_request" -> Range(ESCALATION_KEYWORDS.refund)
      [] reason = "legal_matter" -> Range(ESCALATION_KEYWORDS.legal)
      [] reason = "profanity_aggressive_language" ->
            Range(ESCALATION_KEYWORDS.profanity)
            \cup Range(ESCALATION_KEYWORDS.aggressive)
      [] reason = "explicit_human_request" ->
            Range(ESCALATION_KEYWORDS.human_request)

(* Two characters that are the same letter, whatever their case.           *)
SameLetter(a, b) ==
    \/ a = b
    \/ \E i \in 1..Len(UpperCase) :
          {a, b} = {SubSeq(UpperCase, i, i), SubSeq(LowerCase, i, i)}

(* keyword occurs in text as a case-insensitive substring.                 *)
OccursIn(keyword, text) ==
    \E off \in 0..(Len(text) - Len(keyword)) :
        \A j \in 1..Len(keyword) :
            SameLetter(SubSeq(keyword, j, j), SubSeq(text, off + j, off + j))

Hits(text) ==
    { i \in 1..Len(CategoryOrder) :
        \E k \in KeywordsOf(CategoryOrder[i]) : OccursIn(k, text) }

CallsMade == { hist.calls[i] : i \in 1..Len(hist.calls) }

(* C16: escalate_ticket applied to a ticket whose status is resolved       *)
(* returns an invalid-transition result and leaves the ticket's status,    *)
(* escalation reason and priority as they were.                            *)
C16_ResolvedStaysResolved ==
    \A call \in CallsMade :
        \A b \in call.before :
            b.status = "resolved" =>
               /\ call.status = "invalid_transition"
               /\ \A a \in call.after :
                     /\ a.status = b.status
                     /\ a.escalation_reason = b.escalation_reason
                     /\ a.priority = b.priority

(* C17: a customer's escalation counter has increased by at most one for   *)
(* each distinct ticket of that customer escalate_ticket was called on.    *)
C17_CountedOncePerTicket ==
    \A c \in customers :
        c.escalation_count <=
            Cardinality({ call.ticket : call \in
                            { x \in CallsMade :
                                \E b \in x.before : b.customer_id = c.id } })

(* C18: a processed event whose text the classifier matches has a ticket   *)
(* of its conversation escalated, and a processed event whose text matches *)
(* no rule has no ticket of its conversation escalated for a classifier    *)
(* reason.                                                                 *)
C18_EscalatedIffClassified ==
    \A w \in Workers :
        (wk[w].pc = "poll" /\ hist.last[w].outcome = "processed")
        => LET verdict == detect_escalation_trigger(content(wk[w].message_data))
               escalated == { t \in tickets :
                                /\ t.conversation_id = wk[w].conversation_id
                                /\ t.status = "escalated" }
           IN IF verdict.escalate
              THEN escalated # {}
              ELSE \A t \in escalated :
                      t.escalation_reason \notin Range(CategoryOrder)

(* C19: a call of escalate_ticket that has returned and has moved its      *)
(* ticket to escalated has published an event for that ticket to the       *)
(* escalations topic.                                                      *)
C19_TransitionPublishes ==
    \A call \in CallsMade :
        (\E b \in call.before, a \in call.after :
            b.status # "escalated" /\ a.status = "escalated")
        => /\ call.published >= 1
           /\ \E i \in 1..Len(escalations) :
                 escalations[i].ticket_id = call.ticket

(* C20: a call of escalate_ticket on a ticket that is already escalated    *)
(* publishes one escalation event for it, as every call that returns       *)
(* status escalated does; no call publishes more than one.                 *)
C20_RepublishedPerCall ==
    /\ \A call \in CallsMade :
          /\ call.published <= 1
          /\ call.status = "escalated" => call.published = 1
    /\ Len(escalations) =
          Cardinality({ i \in 1..Len(hist.calls) :
                          hist.calls[i].published = 1 })
    /\ \A i \in 1..Len(escalations) :
          \E call \in CallsMade : call.ticket = escalations[i].ticket_id

C20_Witness ==
    \E i \in 1..Len(hist.calls) :
        /\ \E b \in hist.calls[i].before : b.status = "escalated"
        /\ hist.calls[i].status = "escalated"
        /\ hist.calls[i].published = 1
        /\ Len(escalations) = 2

(* models/ticket.py                                                        *)
TicketPriority == {"low", "medium", "high"}

(* C21: a ticket whose status is resolved or escalated is not open after   *)
(* any step of the pipeline (create_ticket, escalate_ticket,               *)
(* merge_conversations, a web form submission, a worker's step).           *)
C21_NeverReopened ==
    [][\A t \in tickets :
          t.status \in {"resolved", "escalated"} =>
             \A u \in tickets' : u.id = t.id => u.status # "open"]_vars

C21_Witness ==
    /\ \E call \in CallsMade :
          /\ \E b \in call.before : b.status = "resolved"
          /\ \E a \in call.after : a.status = "escalated"
    /\ \E t \in hist.moved : t.status = "resolved"
    /\ \E t \in tickets : t.status = "escalated"

(* C22: a conversation has at most one ticket that is not resolved.        *)
C22_OneUnresolvedTicket ==
    \A c \in conversations :
        Cardinality({ t \in tickets :
                        /\ t.conversation_id = c.id
                        /\ t.status # "resolved" }) <= 1

(* C23: the priority of every ticket is one of low, medium, high.          *)
C23_PriorityInEnum ==
    \A t \in tickets : t.priority \in TicketPriority

(* C24: every ticket is stored in status open, by create_ticket and by the *)
(* web form handler, with category general when the caller of create_ticket *)
(* gave none (the form has no category) and priority medium when the       *)
(* caller gave none.                                                       *)
C24_CreatedOpenWithDefaults ==
    \A c \in hist.creations :
        /\ c.row.status = "open"
        /\ c.category = NULL => c.row.category = "general"
        /\ c.priority = NULL => c.row.priority = "medium"

C24_Witness ==
    /\ \E c \in hist.creations :
          /\ c.by = "create_ticket"
          /\ c.category = NULL /\ c.priority = NULL
          /\ c.row.category = "general" /\ c.row.priority = "medium"
    /\ \E c \in hist.creations :
          /\ c.by = "webform"
          /\ c.priority = NULL
          /\ c.row.status = "open" /\ c.row.priority = "medium"

(* C25: a worker suspended in the handoff to a reasoning engine that does  *)
(* not respond has a step to take: it abandons the attempt (to retry or    *)
(* dead-letter, commit and poll on) and is never left waiting on the one   *)
(* event.                                                                  *)
C25_NeverWaitsForever ==
    \A w \in Workers : wk[w].pc = "awaiting" => ENABLED WorkerStep(w)

(* The event a worker has polled and not yet committed.                    *)
InHand(w) ==
    /\ polled[w] > committed[w]
    /\ wk[w].pc # "stopped"
    /\ Current(w).schema

(* C26: the events of one customer identifier the workers were handed were *)
(* published with one partition key, whichever adapter published them, and *)
(* no two workers have in hand at once events of one customer identifier   *)
(* that came through different adapters.                                   *)
C26_OneKeyPerCustomer ==
    /\ \A v \in Workers, w \in Workers :
          \A i \in 1..polled[v], j \in 1..polled[w] :
             (/\ queue[v][i].schema
              /\ queue[w][j].schema
              /\ queue[v][i].customer_identifier
                    = queue[w][j].customer_identifier)
             => PartitionKey(queue[v][i]) = PartitionKey(queue[w][j])
    /\ \A v \in Workers, w \in Workers :
          (/\ v # w
           /\ InHand(v)
           /\ InHand(w)
           /\ Current(v).channel # Current(w).channel)
          => Current(v).customer_identifier # Current(w).customer_identifier

Answered == { door.responses[i] : i \in 1..Len(door.responses) }

(* C27: a WhatsApp message the webhook was given with a valid signature    *)
(* and a well-formed payload is, once the request is answered, on the      *)
(* topic the worker consumes, in a payload with every field the worker's   *)
(* schema requires.                                                        *)
C27_WhatsAppReachesWorker ==
    \A r \in Answered :
        (r.request.signature = "valid" /\ r.request.payload)
        => \E w \in Workers : \E i \in 1..Len(queue[w]) :
              /\ queue[w][i].channel = "whatsapp"
              /\ queue[w][i].channel_message_id = r.request.MessageSid
              /\ queue[w][i].schema

(* C30: a WhatsApp webhook request whose signature header is missing or    *)
(* invalid is answered with HTTP 401, after no duplicate lookup and no     *)
(* publish.                                                                *)
C30_BadSignatureGets401 ==
    \A r \in Answered :
        r.request.signature # "valid"
        => (r.status_code = 401 /\ r.lookups = 0 /\ r.published = 0)

(* C28: an event whose duplicate lookup failed is not skipped as a         *)
(* duplicate: the worker goes on to resolve its customer, and the event is *)
(* committed as processed or as failed, never as a duplicate.              *)
C28_LookupFailureNotSkipped ==
    \A w \in Workers :
        wk[w].dedup = "failed" =>
           /\ wk[w].pc \notin {"dedup", "commit_dup"}
           /\ wk[w].pc = "poll" => hist.last[w].outcome # "duplicate"

C28_Witness ==
    \E w \in Workers :
        /\ wk[w].dedup = "failed"
        /\ wk[w].pc = "poll"
        /\ hist.last[w].outcome = "processed"
        /\ Count(hist.handoffs, Key(wk[w].message_data)) >= 1

(* C29: every call of escalate_ticket has returned a result value: error  *)
(* or failed for a ticket id no row has, failed for a text that is no      *)
(* UUID and for a storage or publish failure; none has raised.             *)
C29_EscalateNeverRaises ==
    \A call \in CallsMade :
        /\ call.status \in {"escalated", "error", "failed"}
        /\ ~UUID(call.ticket) => call.status = "failed"
        /\ (UUID(call.ticket) /\ call.before = {})
              => call.status \in {"error", "failed"}

C29_Witness ==
    /\ \E call \in CallsMade :
          ~UUID(call.ticket) /\ call.status = "failed"
    /\ \E call \in CallsMade :
          /\ call.before # {}
          /\ call.published = 0
          /\ call.status = "failed"
          /\ \E a \in call.after : a.status = "escalated"

(* The digits of a text, in order.                                         *)
Digits == "0123456789"

IsDigit(c) == \E i \in 1..Len(Digits) : SubSeq(Digits, i, i) = c

RECURSIVE DigitsOf(_)
DigitsOf(s) ==
    IF Len(s) = 0 THEN s
    ELSE (IF IsDigit(SubSeq(s, 1, 1)) THEN SubSeq(s, 1, 1) ELSE "")
         \o DigitsOf(SubSeq(s, 2, Len(s)))

(* The number written in phone once a whatsapp: prefix is taken off.       *)
Unprefixed(phone) ==
    IF startswith(phone, WhatsAppPrefix)
    THEN SubSeq(phone, Len(WhatsAppPrefix) + 1, Len(phone)) ELSE phone

(* C31: normalize_phone_number returns "+" followed by the digits of the   *)
(* number and nothing else (prefix and formatting characters removed),     *)
(* with "1" put before them when there are exactly ten digits and the      *)
(* number was written without a leading "+".                               *)
C31_PlusAndDigitsOnly ==
    \A n \in hist.normalized :
        LET d == DigitsOf(Unprefixed(n.phone))
            bare == Len(d) = 10 /\ DigitsOf(n.phone) = d
                    /\ \A i \in 1..Len(n.phone) : SubSeq(n.phone, i, i) # "+"
        IN n.result = (IF bare THEN "+1" ELSE "+") \o d

(* Step i of the sequence s comes after a step called name of the same     *)
(* attempt (every attempt that gets past validation starts with "dedup").  *)
Precedes(s, i, name) ==
    \E j \in 1..(i - 1) :
        /\ s[j] = name
        /\ \A k \in (j + 1)..(i - 1) : s[k] # "dedup"

(* The order of the steps in s, with the given steps taken for the         *)
(* side-effecting work the dedup check has to come before.                 *)
InOrder(s, guarded) ==
    \A i \in 1..Len(s) :
        /\ s[i] \in guarded => Precedes(s, i, "dedup")
        /\ s[i] = "conversation" => Precedes(s, i, "customer")
        /\ s[i] = "engine" => /\ Precedes(s, i, "customer")
                              /\ Precedes(s, i, "conversation")
        /\ s[i] = "commit" =>
              \E j \in 1..(i - 1) : s[j] \in {"returned", "skip", "dlq"}

C33_LatestInWindowOrNew ==
    \A w \in Workers :
        LET n == hist.session[w]
            inWindow == { a \in n.active :
                            n.at - a.started_at < ReuseWindowHours }
        IN n.customer # 0 =>
             IF inWindow # {}
             THEN /\ ~n.created
                  /\ \E a \in inWindow :
                        /\ a.id = n.conversation
                        /\ \A b \in inWindow : b.started_at <= a.started_at
             ELSE /\ n.created
                  /\ n.conversation \notin { a.id : a \in n.active }
                  /\ \A c \in conversations :
                        c.id = n.conversation =>
                          /\ c.customer_id = n.customer
                          /\ c.initial_channel = n.channel
                          /\ c.started_at >= n.at
                          /\ c.status = "active" \/ c.ended_at # <<>>

(* An event arrived when the customer's only active conversation had       *)
(* started exactly 24 hours before, and the new conversation was stored.   *)
C33_Witness ==
    \E w \in Workers :
        LET n == hist.session[w] IN
        /\ n.created
        /\ n.active # {}
        /\ \A a \in n.active : n.at - a.started_at = ReuseWindowHours
        /\ \E c \in conversations :
              c.id = n.conversation /\ c.status = "active"

(* The merges (primary, secondary) that complete in a step.                *)
Completing ==
    { pr \in DOMAIN hist'.merges :
        Count(hist'.merges, pr) > Count(hist.merges, pr) }

C35_MergeKeepsMessageOrder ==
    [][\A pr \in Completing :
         /\ \A m \in messages :
               \E n \in messages' : n.id = m.id /\ n.created_at = m.created_at
         /\ messages_query(messages', pr[1]) =
               { [i \in 1..Len(s) |->
                     [id |-> s[i].id, created_at |-> s[i].created_at]] :
                   s \in OrderByCreatedAt(
                           { m \in messages :
                               m.conversation_id \in {pr[1], pr[2]} }) }]_vars

(* A merge made later than both messages has put the earlier message of    *)
(* the secondary before the later message of the primary.                  *)
C35_Witness ==
    \E pr \in DOMAIN hist.merges :
        \E s \in messages_query(messages, pr[1]) :
            /\ Len(s) = 2
            /\ s[1].created_at < s[2].created_at
            /\ \E m \in messages :
                  /\ m.id = s[1].id
                  /\ m.updated_at # <<>>
                  /\ m.updated_at[1] > s[2].created_at

(* C36: a shutdown that reaches a worker while an event is in flight       *)
(* leaves the consumer closed only once the offset of that event is        *)
(* committed, and the worker polls no further event.                       *)
C36_InFlightCommittedBeforeClose ==
    \A w \in Workers :
        /\ wk[w].closed /\ wk[w].stop_offset > 0 =>
              committed[w] >= wk[w].stop_offset
        /\ wk[w].stop_offset > 0 => polled[w] = wk[w].stop_offset

(* The steps a worker has taken for the event in hand, as a set.           *)
StepsOf(w) == Range(wk[w].steps)

(* The worker has just committed the offset of the event in hand.          *)
JustCommitted(w) ==
    /\ wk[w].steps # <<>>
    /\ wk[w].steps[Len(wk[w].steps)] = "commit"

(* C37: an event whose offset a worker commits was handed over             *)
(* successfully, or skipped as a duplicate, or is the original_message of  *)
(* a record of the dead-letter topic.                                      *)
C37_CommittedMeansHandled ==
    \A w \in Workers :
        JustCommitted(w) =>
            \/ "returned" \in StepsOf(w)
            \/ "skip" \in StepsOf(w)
            \/ \E i \in 1..Len(dlq) : dlq[i].original_message = Current(w)

(* C38: a worker publishes to the dead-letter topic only for an event it   *)
(* has neither handed over successfully nor skipped as a duplicate,        *)
(* whatever the commit after the processing did.                           *)
C38_ProcessedNeverDeadLettered ==
    \A w \in Workers :
        "published" \in StepsOf(w) =>
            /\ "returned" \notin StepsOf(w)
            /\ "skip" \notin StepsOf(w)

(* C39: the original_message of every record of the dead-letter topic is   *)
(* the queue record whose processing failed.                               *)
C39_DeadLetterCarriesFailedEvent ==
    \A i \in 1..Len(dlq) : dlq[i].original_message = dlq[i].failed

(* C40: a call of escalate_ticket that returns a failed or error result    *)
(* has left the ticket's row (status, escalation reason, priority) as it   *)
(* was, has published nothing to the escalations topic and has not raised  *)
(* the customer's escalation counter.                                      *)
C40_FailedEscalationChangesNothing ==
    \A i \in 1..Len(hist.calls) :
        LET call == hist.calls[i] IN
        call.status \in {"failed", "error"} =>
            /\ \A t \in call.before : \A u \in call.after :
                  /\ u.status = t.status
                  /\ u.escalation_reason = t.escalation_reason
                  /\ u.priority = t.priority
            /\ call.published = 0
            /\ ~call.counted

====
